---- MODULE Spec2Model ----
(***************************************************************************)
(* A model of the temporal core of event-pulse: the Epoch grammar and its  *)
(* duration arithmetic (models/epoch.rs), MilitaryTime (models/time.rs),   *)
(* SignalTrigger (models/signal.rs), the notification record EventNotify   *)
(* (models/notify.rs), the tag index EventManager (models/event.rs), the   *)
(* identifier prefix (models/uid.rs) and identifier generation from the    *)
(* wall clock (utils.rs).                                                  *)
(*                                                                         *)
(* Text is a sequence of one-character strings.  A call of a pure          *)
(* operation is an action that records the operation, its argument and     *)
(* its outcome in op / arg / ret; an outcome is a record whose tag is      *)
(* "Ok", "Err" or "Panic".                                                 *)
(***************************************************************************)
EXTENDS Integers, Sequences, FiniteSets, TLC

VARIABLES
    op,                  \* name of the operation called last ("none" initially)
    arg,                 \* the argument(s) of that call
    ret,                 \* the outcome of that call
    start_date,          \* EventNotify.start_date (seconds since the Unix epoch)
    delivery_frequency,  \* EventNotify.delivery_frequency
    calls,               \* log of the edit_delivery_frequency calls made so far
    id,                  \* EventNotify.id
    scheduled_event,     \* EventNotify.scheduled_event
    recipients,          \* EventNotify.recipients
    event_tags_map,      \* EventManager.event_tags_map
    manager_call,        \* the EventManager call made last, with the map before it
    now,                 \* the wall clock (microseconds since the Unix epoch)
    generated            \* log of the identifiers generated so far

vars ==
    <<op, arg, ret, start_date, delivery_frequency, calls, id, scheduled_event,
      recipients, event_tags_map, manager_call, now, generated>>

(***************************************************************************)
(* Bounds of the model.                                                    *)
(***************************************************************************)
\* longest epoch text that is enumerated exhaustively
MaxLen == 4
\* largest amount of an Epoch value handed to the duration operations
MaxAmount == 13
\* largest coefficient of an Epoch value handed to the duration operations
MaxCoefficient == 3
\* largest amount / coefficient written out in a canonical epoch text
MaxCanon == 12
\* number of edit_delivery_frequency calls followed in one behaviour
MaxCalls == 2
\* the start_date arguments are up to MaxWeekArg weeks after the baseline
MaxWeekArg == 2
\* longest list of recipients a notification gets
MaxRecipients == 2
\* longest vector of tags handed to tag_event
MaxTagVec == 2
\* the wall clock advances up to MaxTicks microseconds past its first reading
MaxTicks == 3
\* number of identifiers generated in one behaviour
MaxIds == 3
\* longest prefix that is enumerated exhaustively, in characters
MaxPrefixChars == 5

(***************************************************************************)
(* Outcomes.                                                               *)
(***************************************************************************)
Ok(v) == [tag |-> "Ok", val |-> v]

Err(e) == [tag |-> "Err", err |-> e]

Panic(m) == [tag |-> "Panic", msg |-> m]

None == [tag |-> "None"]

Some(v) == [tag |-> "Some", val |-> v]

(***************************************************************************)
(* Characters and decimal numerals.                                        *)
(***************************************************************************)
DigitChars == <<"0", "1", "2", "3", "4", "5", "6", "7", "8", "9">>

IsDigit(c) == \E i \in 1..10 : DigitChars[i] = c

DigitVal(c) == (CHOOSE i \in 1..10 : DigitChars[i] = c) - 1

\* str::trim: whitespace is removed at both ends
IsWhitespace(c) == c = " "

RECURSIVE TrimStart(_)
TrimStart(s) ==
    IF s # <<>> /\ IsWhitespace(Head(s)) THEN TrimStart(Tail(s)) ELSE s

RECURSIVE TrimEnd(_)
TrimEnd(s) ==
    IF s # <<>> /\ IsWhitespace(s[Len(s)])
    THEN TrimEnd(SubSeq(s, 1, Len(s) - 1))
    ELSE s

Trim(s) == TrimEnd(TrimStart(s))

RECURSIVE StripZeros(_)
StripZeros(d) ==
    IF Len(d) > 1 /\ Head(d) = "0" THEN StripZeros(Tail(d)) ELSE d

\* the value of a digit sequence
RECURSIVE NumeralValue(_)
NumeralValue(d) ==
    IF d = <<>> THEN 0
    ELSE 10 * NumeralValue(SubSeq(d, 1, Len(d) - 1)) + DigitVal(d[Len(d)])

\* a <= b for two digit sequences without leading zeros
RECURSIVE LexLE(_, _)
LexLE(a, b) ==
    IF a = <<>> THEN TRUE
    ELSE IF DigitVal(Head(a)) # DigitVal(Head(b))
         THEN DigitVal(Head(a)) < DigitVal(Head(b))
         ELSE LexLE(Tail(a), Tail(b))

NumeralLE(a, b) == Len(a) < Len(b) \/ (Len(a) = Len(b) /\ LexLE(a, b))

\* i64::MAX, the magnitude of i64::MIN, and u32::MAX as numerals
I64MaxDigits ==
    <<"9","2","2","3","3","7","2","0","3","6","8","5","4","7","7","5","8","0","7">>

I64MinDigits ==
    <<"9","2","2","3","3","7","2","0","3","6","8","5","4","7","7","5","8","0","8">>

U32MaxDigits == <<"4","2","9","4","9","6","7","2","9","5">>

\* Formatting of a positive integer with {} (Display for i64)
RECURSIVE ToDigits(_)
ToDigits(n) ==
    IF n < 10 THEN <<DigitChars[n + 1]>>
    ELSE ToDigits(n \div 10) \o <<DigitChars[(n % 10) + 1]>>

\* str::parse::<i64>: an optional sign, then one or more digits; a value
\* outside the range of i64 is an error.
ParseI64(s) ==
    IF s = <<>> THEN Err("Empty")
    ELSE LET signed == Head(s) \in {"+", "-"}
             digits == IF signed THEN Tail(s) ELSE s
             neg    == Head(s) = "-"
         IN  IF digits = <<>> \/ \E i \in 1..Len(digits) : ~IsDigit(digits[i])
             THEN Err("InvalidDigit")
             ELSE LET n == StripZeros(digits)
                  IN  IF neg
                      THEN IF NumeralLE(n, I64MinDigits)
                           THEN Ok(0 - NumeralValue(n))
                           ELSE Err("NegOverflow")
                      ELSE IF NumeralLE(n, I64MaxDigits)
                           THEN Ok(NumeralValue(n))
                           ELSE Err("PosOverflow")

\* str::parse::<u32>: an optional '+', then one or more digits; a value
\* above u32::MAX is an error.
ParseU32(s) ==
    IF s = <<>> THEN Err("Empty")
    ELSE LET digits == IF Head(s) = "+" THEN Tail(s) ELSE s
         IN  IF digits = <<>> \/ \E i \in 1..Len(digits) : ~IsDigit(digits[i])
             THEN Err("InvalidDigit")
             ELSE LET n == StripZeros(digits)
                  IN  IF NumeralLE(n, U32MaxDigits)
                      THEN Ok(NumeralValue(n))
                      ELSE Err("PosOverflow")

(***************************************************************************)
(* models/epoch.rs: the Epoch grammar.                                     *)
(***************************************************************************)
CalendarData(amount, coefficient) ==
    [amount |-> amount, coefficient |-> coefficient]

SingleDay == [variant |-> "SingleDay"]

Year(cd) == [variant |-> "Year", data |-> cd]

Month(cd) == [variant |-> "Month", data |-> cd]

Week(cd) == [variant |-> "Week", data |-> cd]

Day(cd) == [variant |-> "Day", data |-> cd]

\* IsLeadDigit with the class [0-9] in place of [1-9]
IsLeadDigit_AnyDigit(c) == IsDigit(c)

\* the class [1-9] of RE_EPOCH
IsLeadDigit(c) == IsDigit(c) /\ c # "0"

\* the class [dwmy] of RE_EPOCH
IsUnitLetter(c) == c \in {"d", "w", "m", "y"}

\* the digit run [0-9] of RE_EPOCH is greedy: the first position at or
\* after i that holds no digit
RECURSIVE DigitRunEnd(_, _)
DigitRunEnd(s, i) ==
    IF i <= Len(s) /\ IsDigit(s[i]) THEN DigitRunEnd(s, i + 1) ELSE i

\* the optional coefficient group of RE_EPOCH (a lead digit, a digit run,
\* then x) tried at position k
CoefficientGroup(s, k) ==
    IF k <= Len(s) /\ IsLeadDigit(s[k])
    THEN LET e == DigitRunEnd(s, k + 1)
         IN  IF e <= Len(s) /\ s[e] = "x"
             THEN Some(SubSeq(s, k, e - 1))
             ELSE None
    ELSE None

\* RE_EPOCH tried at position i: groups 2, 3 and 5 of a match, or None
MatchAt(s, i) ==
    IF i <= Len(s) /\ IsLeadDigit(s[i])
    THEN LET j == DigitRunEnd(s, i + 1)
         IN  IF j <= Len(s) /\ IsUnitLetter(s[j])
             THEN Some([g2 |-> SubSeq(s, i, j - 1),
                        g3 |-> s[j],
                        g5 |-> CoefficientGroup(s, j + 1)])
             ELSE None
    ELSE None

\* Regex::captures: the regex is not anchored, the leftmost match wins
RE_EPOCH_captures(s) ==
    IF \E i \in 1..Len(s) : MatchAt(s, i) # None
    THEN MatchAt(s, CHOOSE i \in 1..Len(s) :
                        /\ MatchAt(s, i) # None
                        /\ \A k \in 1..(i - 1) : MatchAt(s, k) = None)
    ELSE None

\* parse_epoch: (unit, amount, coefficient), or the panic of an unwrap()
parse_epoch(text) ==
    LET c == RE_EPOCH_captures(text)
    IN  IF c = None THEN Ok(<<"d", 1, 1>>)
        ELSE LET a == ParseI64(c.val.g2)
                 r == IF c.val.g5 = None THEN Ok(1) ELSE ParseI64(c.val.g5.val)
             IN  IF a.tag # "Ok" \/ r.tag # "Ok"
                 THEN Panic("unwrap on Err")
                 ELSE Ok(<<c.val.g3, a.val, r.val>>)

\* Epoch_from_str with a SingleDay test that knows 1d1x only
Epoch_from_str_LongFormOnly(s) ==
    LET p == parse_epoch(s)
    IN  IF p.tag = "Panic" THEN p
        ELSE LET unit        == p.val[1]
                 amount      == p.val[2]
                 coefficient == p.val[3]
             IN  CASE unit = "y" -> Ok(Year(CalendarData(amount, coefficient)))
                   [] unit = "m" -> Ok(Month(CalendarData(amount, coefficient)))
                   [] unit = "w" -> Ok(Week(CalendarData(amount, coefficient)))
                   [] unit = "d" ->
                        IF s = <<"1", "d", "1", "x">>
                        THEN Ok(SingleDay)
                        ELSE Ok(Day(CalendarData(amount, coefficient)))
                   [] OTHER -> Err("InvalidInputString")

\* <Epoch as FromStr>::from_str
Epoch_from_str(s) ==
    LET p == parse_epoch(s)
    IN  IF p.tag = "Panic" THEN p
        ELSE LET unit        == p.val[1]
                 amount      == p.val[2]
                 coefficient == p.val[3]
             IN  CASE unit = "y" -> Ok(Year(CalendarData(amount, coefficient)))
                   [] unit = "m" -> Ok(Month(CalendarData(amount, coefficient)))
                   [] unit = "w" -> Ok(Week(CalendarData(amount, coefficient)))
                   [] unit = "d" ->
                        IF s = <<"1", "d", "1", "x">> \/ s = <<"1", "d">>
                        THEN Ok(SingleDay)
                        ELSE Ok(Day(CalendarData(amount, coefficient)))
                   [] OTHER -> Err("InvalidInputString")

(***************************************************************************)
(* models/time.rs and models/signal.rs: the two trigger grammars.          *)
(***************************************************************************)
\* TRUE iff the text d occurs in s at position i
OccursAt(s, d, i) ==
    /\ i + Len(d) - 1 <= Len(s)
    /\ SubSeq(s, i, i + Len(d) - 1) = d

\* str::split: the pieces of s between the occurrences of the text d, found
\* from the left and not overlapping
RECURSIVE Split(_, _)
Split(s, d) ==
    IF \E i \in 1..Len(s) : OccursAt(s, d, i)
    THEN LET i == CHOOSE k \in 1..Len(s) :
                      /\ OccursAt(s, d, k)
                      /\ \A l \in 1..(k - 1) : ~OccursAt(s, d, l)
         IN  <<SubSeq(s, 1, i - 1)>> \o Split(SubSeq(s, i + Len(d), Len(s)), d)
    ELSE <<s>>

\* trim_start_matches leaving the text as it is
TrimStartMatches_KeepsMarker(s, c) == s

\* str::trim_start_matches: every leading c is removed
RECURSIVE TrimStartMatches(_, _)
TrimStartMatches(s, c) ==
    IF s # <<>> /\ Head(s) = c THEN TrimStartMatches(Tail(s), c) ELSE s

MilitaryTime(hour, minute, seconds) ==
    [hour |-> hour, minute |-> minute, seconds |-> seconds]

\* from_str accepting more than three fields
MilitaryTime_from_str_AtLeastThree(input) ==
    LET parts == Split(Trim(input), <<":">>)
    IN  IF Len(parts) < 3 THEN Err("InvalidInputString")
        ELSE LET hour    == ParseU32(parts[1])
                 minute  == ParseU32(parts[2])
                 seconds == ParseU32(parts[3])
             IN  IF hour.tag # "Ok" THEN Err("ParseError")
                 ELSE IF minute.tag # "Ok" THEN Err("ParseError")
                 ELSE IF seconds.tag # "Ok" THEN Err("ParseError")
                 ELSE Ok(MilitaryTime(hour.val, minute.val, seconds.val))

\* MilitaryTime::from_str
MilitaryTime_from_str(input) ==
    LET parts == Split(Trim(input), <<":">>)
    IN  IF Len(parts) # 3 THEN Err("InvalidInputString")
        ELSE LET hour    == ParseU32(parts[1])
                 minute  == ParseU32(parts[2])
                 seconds == ParseU32(parts[3])
             IN  IF hour.tag # "Ok" THEN Err("ParseError")
                 ELSE IF minute.tag # "Ok" THEN Err("ParseError")
                 ELSE IF seconds.tag # "Ok" THEN Err("ParseError")
                 ELSE Ok(MilitaryTime(hour.val, minute.val, seconds.val))

SignalTrigger(time, interval_seconds) ==
    [time |-> time, interval_seconds |-> interval_seconds]

\* from_str accepting more than two segments
SignalTrigger_from_str_AtLeastTwo(input) ==
    LET parts == Split(Trim(input), <<":", ":", "I">>)
    IN  IF Len(parts) < 2 THEN Err("InvalidInputString")
        ELSE LET time_str == TrimStartMatches(parts[1], "M")
                 time     == MilitaryTime_from_str(time_str)
                 interval == ParseI64(parts[2])
             IN  IF time.tag # "Ok" THEN Err("ParseError")
                 ELSE IF interval.tag # "Ok" THEN Err("ParseError")
                 ELSE Ok(SignalTrigger(time.val, interval.val))

\* SignalTrigger::from_str
SignalTrigger_from_str(input) ==
    LET parts == Split(Trim(input), <<":", ":", "I">>)
    IN  IF Len(parts) # 2 THEN Err("InvalidInputString")
        ELSE LET time_str == TrimStartMatches(parts[1], "M")
                 time     == MilitaryTime_from_str(time_str)
                 interval == ParseI64(parts[2])
             IN  IF time.tag # "Ok" THEN Err("ParseError")
                 ELSE IF interval.tag # "Ok" THEN Err("ParseError")
                 ELSE Ok(SignalTrigger(time.val, interval.val))

(***************************************************************************)
(* The texts handed to the parsers.                                        *)
(***************************************************************************)
\* all texts of at most n characters of the alphabet A
Texts(A, n) == UNION {[1..k -> A] : k \in 0..n}

RECURSIVE Join(_, _)
Join(fs, sep) ==
    IF Len(fs) = 0 THEN <<>>
    ELSE IF Len(fs) = 1 THEN fs[1]
    ELSE fs[1] \o sep \o Join(Tail(fs), sep)

UnitLetters == {"d", "w", "m", "y"}

EpochAlphabet == {"0", "1", "2", "d", "w", "m", "y", "x", "q", " "}

\* numerals that no i64 holds: i64::MAX + 1 and 10^19
OverflowNumerals ==
    {I64MinDigits, <<"1">> \o [i \in 1..19 |-> "0"]}

\* the canonical texts <a><u> and <a><u><c>x
CanonicalText(a, u, c, suffix) ==
    IF suffix THEN ToDigits(a) \o <<u>> \o ToDigits(c) \o <<"x">>
    ELSE ToDigits(a) \o <<u>>

EpochInputs ==
    Texts(EpochAlphabet, MaxLen)
    \cup {CanonicalText(a, u, c, TRUE) :
             a \in 1..MaxCanon, u \in UnitLetters, c \in 1..MaxCanon}
    \cup {CanonicalText(a, u, 1, FALSE) : a \in 1..MaxCanon, u \in UnitLetters}
    \cup {<<u>> \o ToDigits(c) \o <<"x">> : u \in UnitLetters, c \in 1..MaxCanon}
    \cup {<<"3", "q">>, <<"2", "h", "4", "x">>, <<"0", "1", "d">>}
    \cup {n \o <<u>> : n \in OverflowNumerals, u \in UnitLetters}
    \cup {<<"1", u>> \o n \o <<"x">> : n \in OverflowNumerals, u \in UnitLetters}

\* one field of a time text
TimeFields ==
    {<<>>, <<"1", "6">>, <<"0", "5">>, <<"6", "1">>, <<"+", "7">>, <<"-", "1">>,
     <<"x">>, <<"4","2","9","4","9","6","7","2","9","6">>}

\* a time text has at most MaxFields fields
MaxFields == 4

TimeTexts ==
    {Join(fs, <<":">>) : fs \in UNION {[1..k -> TimeFields] : k \in 1..MaxFields}}

\* 25:61:61 and 16:30:25
MilitaryExamples ==
    {<<"2", "5", ":", "6", "1", ":", "6", "1">>,
     <<"1", "6", ":", "3", "0", ":", "2", "5">>}

MilitaryInputs ==
    TimeTexts \cup {<<" ">> \o t \o <<" ">> : t \in TimeTexts} \cup MilitaryExamples

SignalTimeFields == {<<>>, <<"1", "6">>, <<"x">>, <<"4","2","9","4","9","6","7","2","9","6">>}

SignalTimes ==
    {Join(fs, <<":">>) : fs \in UNION {[1..k -> SignalTimeFields] : k \in 2..3}}
    \cup {<<>>}

SignalMarkers == {<<>>, <<"M">>, <<"M", "M">>}

SignalDelimiters ==
    {<<":", ":", "I">>, <<":", ":">>, <<>>, <<":", ":", "I", ":", ":", "I">>,
     <<":", ":", "I", "1", ":", ":", "I">>}

SignalIntervals ==
    {<<>>, <<"6", "0">>, <<"-", "5">>, <<"+", "5">>, <<"0">>, <<"x">>, <<"6", " ">>}
    \cup OverflowNumerals

\* a decimal integer as text, and a number below 100 as two digits
IntText(n) == IF n < 0 THEN <<"-">> \o ToDigits(0 - n) ELSE ToDigits(n)

TwoDigits(n) == IF n < 10 THEN <<"0">> \o ToDigits(n) ELSE ToDigits(n)

\* the text M<h>:<m>:<s>::I<n>, its time fields as two digits when padded
SignalText(h, m, s, n, padded) ==
    LET F(v) == IF padded THEN TwoDigits(v) ELSE ToDigits(v)
    IN  <<"M">> \o F(h) \o <<":">> \o F(m) \o <<":">> \o F(s)
            \o <<":", ":", "I">> \o IntText(n)

SignalHours == {0, 16, 25}

SignalMinutes == {5, 30, 61}

SignalSeconds == {0, 25, 61}

SignalIntervalValues == {86400, 60, 0, -5}

\* the malformed texts of the tests of signal.rs
SignalExamples ==
    {<<":", ":", "I", "8", "6", "4", "0", "0">>,
     <<"M", "1", "6", ":", "3", "0", ":", "2", "5", ":", ":">>,
     <<":", ":">>,
     <<"M", ":", ":", "I", "8", "6", "4", "0", "0">>,
     <<"M", "1", "6", ":", "3", "0", ":", "2", "5", ":", ":", "I">>,
     <<"M", "1", "6", ":", "3", "0", ":", "2", "5", ":", ":", "I",
       "i", "n", "v", "a", "l", "i", "d">>}

\* 16:30:25::I60 and MM16:30:25::I60
SignalMarkerExamples ==
    {<<"1", "6", ":", "3", "0", ":", "2", "5", ":", ":", "I", "6", "0">>,
     <<"M", "M", "1", "6", ":", "3", "0", ":", "2", "5", ":", ":", "I", "6", "0">>}

SignalInputs ==
    SignalMarkerExamples \cup
    {m \o t \o d \o i : m \in SignalMarkers, t \in SignalTimes,
                        d \in SignalDelimiters, i \in SignalIntervals}
    \cup {SignalText(h, m, s, n, p) :
             h \in SignalHours, m \in SignalMinutes, s \in SignalSeconds,
             n \in SignalIntervalValues, p \in BOOLEAN}
    \cup SignalExamples

(***************************************************************************)
(* The calendar of chrono, as far as epoch.rs uses it.                     *)
(***************************************************************************)
IsLeapYear(y) == y % 4 = 0 /\ (y % 100 # 0 \/ y % 400 = 0)

DaysInMonth(y, m) ==
    CASE m \in {1, 3, 5, 7, 8, 10, 12} -> 31
      [] m \in {4, 6, 9, 11} -> 30
      [] m = 2 -> IF IsLeapYear(y) THEN 29 ELSE 28

\* NaiveDate::from_ymd_opt: None unless the day exists
NaiveDate_from_ymd_opt(y, m, d) ==
    IF m \in 1..12 /\ d >= 1 /\ d <= DaysInMonth(y, m)
    THEN Some([year |-> y, month |-> m, day |-> d])
    ELSE None

\* NaiveTime::from_hms_opt: a time of day with no sub-second part
NaiveTime_from_hms_opt(h, m, s) ==
    IF h <= 23 /\ m <= 59 /\ s <= 59
    THEN Some([hour |-> h, minute |-> m, second |-> s, nano |-> 0])
    ELSE None

NaiveDateTime(date, time) == [date |-> date, time |-> time]

RECURSIVE DaysBeforeMonth(_, _)
DaysBeforeMonth(y, m) ==
    IF m = 1 THEN 0 ELSE DaysBeforeMonth(y, m - 1) + DaysInMonth(y, m - 1)

\* Datelike::num_days_from_ce: the number of the day, 0001-01-01 being day 1
num_days_from_ce(date) ==
    LET p == date.year - 1
    IN  365 * p + (p \div 4) - (p \div 100) + (p \div 400)
        + DaysBeforeMonth(date.year, date.month) + date.day

SECS_PER_DAY == 86400

NANOS_PER_SEC == 1000000000

\* TimeDelta: whole seconds and 0 <= nanos < 10^9
TimeDelta(secs, nanos) == [secs |-> secs, nanos |-> nanos]

\* the / of Rust integers rounds towards zero
TruncDiv(a, b) == IF a >= 0 THEN a \div b ELSE 0 - ((0 - a) \div b)

SecondOfDay(t) == t.hour * 3600 + t.minute * 60 + t.second

\* NaiveDateTime::signed_duration_since
signed_duration_since(end, start) ==
    LET days  == num_days_from_ce(end.date) - num_days_from_ce(start.date)
        secs  == days * SECS_PER_DAY + SecondOfDay(end.time) - SecondOfDay(start.time)
        nanos == end.time.nano - start.time.nano
    IN  IF nanos < 0
        THEN TimeDelta(secs - 1, nanos + NANOS_PER_SEC)
        ELSE TimeDelta(secs, nanos)

\* TimeDelta::num_seconds and TimeDelta::num_days
num_seconds(d) == IF d.secs < 0 /\ d.nanos > 0 THEN d.secs + 1 ELSE d.secs

num_days(d) == TruncDiv(num_seconds(d), SECS_PER_DAY)

\* Duration::try_days and Duration::try_weeks
try_days(days) == Some(TimeDelta(days * SECS_PER_DAY, 0))

try_weeks(weeks) == Some(TimeDelta(weeks * 7 * SECS_PER_DAY, 0))

(***************************************************************************)
(* models/epoch.rs: the two duration operations.                           *)
(***************************************************************************)
DAYS_IN_WEEK == 7

DAYS_IN_YEAR == 365

DAYS_IN_MONTH == 30

\* MonthWalk with the rollover test >= 12 in place of > 12
RECURSIVE MonthWalk_RolloverAtTwelve(_, _, _, _)
MonthWalk_RolloverAtTwelve(current_year, current_month, amount, n) ==
    IF n <= 0 THEN <<current_year, current_month>>
    ELSE LET m == current_month + amount
         IN  IF m >= 12
             THEN MonthWalk_RolloverAtTwelve(current_year + 1, m - 12, amount, n - 1)
             ELSE MonthWalk_RolloverAtTwelve(current_year, m, amount, n - 1)

\* the loop of the Month branch: n steps of amount months each
RECURSIVE MonthWalk(_, _, _, _)
MonthWalk(current_year, current_month, amount, n) ==
    IF n <= 0 THEN <<current_year, current_month>>
    ELSE LET m == current_month + amount
         IN  IF m > 12
             THEN MonthWalk(current_year + 1, m - 12, amount, n - 1)
             ELSE MonthWalk(current_year, m, amount, n - 1)

\* the end of the period: the target date with the hour, minute and second
\* of since, or the panic of an expect()
EndDateTime(year, month, since) ==
    LET date == NaiveDate_from_ymd_opt(year, month, since.date.day)
        time == NaiveTime_from_hms_opt(since.time.hour, since.time.minute,
                                       since.time.second)
    IN  IF date = None
        THEN Panic("failed to create NaiveDate from NaiveDateTime")
        ELSE IF time = None THEN Panic("failed to create NaiveTime")
        ELSE Ok(NaiveDateTime(date.val, time.val))

\* Epoch::calculate_days_since
calculate_days_since(self, since) ==
    CASE self.variant = "Month" ->
           LET w   == MonthWalk(since.date.year, since.date.month,
                                self.data.amount, self.data.coefficient)
               end == EndDateTime(w[1], w[2], since)
           IN  IF end.tag = "Panic" THEN end
               ELSE Ok(num_days(signed_duration_since(end.val, since)))
      [] self.variant = "Year" ->
           LET end_year == since.date.year
                           + self.data.coefficient * self.data.amount
               end == EndDateTime(end_year, since.date.month, since)
           IN  IF end.tag = "Panic" THEN end
               ELSE Ok(num_days(signed_duration_since(end.val, since)))
      [] self.variant = "Week" ->
           Ok(self.data.amount * self.data.coefficient * DAYS_IN_WEEK)
      [] self.variant = "Day" ->
           Ok(self.data.amount * self.data.coefficient)
      [] self.variant = "SingleDay" -> Ok(1)

\* the expect() of to_duration
ExpectDays(d) == IF d = None THEN Panic("Invalid number of days") ELSE Ok(d.val)

\* to_duration with a Week branch that leaves the coefficient out
to_duration_WeekWithoutCoefficient(self) ==
    CASE self.variant = "SingleDay" -> ExpectDays(try_days(1))
      [] self.variant = "Year" ->
           ExpectDays(try_days(self.data.amount * self.data.coefficient * DAYS_IN_YEAR))
      [] self.variant = "Month" ->
           ExpectDays(try_days(self.data.amount * self.data.coefficient * DAYS_IN_MONTH))
      [] self.variant = "Week" ->
           ExpectDays(try_days(self.data.amount * DAYS_IN_WEEK))
      [] self.variant = "Day" ->
           ExpectDays(try_days(self.data.amount * self.data.coefficient))

\* Epoch::to_duration
to_duration(self) ==
    CASE self.variant = "SingleDay" -> ExpectDays(try_days(1))
      [] self.variant = "Year" ->
           ExpectDays(try_days(self.data.amount * self.data.coefficient * DAYS_IN_YEAR))
      [] self.variant = "Month" ->
           ExpectDays(try_days(self.data.amount * self.data.coefficient * DAYS_IN_MONTH))
      [] self.variant = "Week" ->
           ExpectDays(try_days(self.data.amount * self.data.coefficient * DAYS_IN_WEEK))
      [] self.variant = "Day" ->
           ExpectDays(try_days(self.data.amount * self.data.coefficient))

\* the Epoch values handed to the duration operations
EpochValues ==
    {SingleDay}
    \cup {[variant |-> v, data |-> CalendarData(a, c)] :
             v \in {"Year", "Month", "Week", "Day"},
             a \in 1..MaxAmount, c \in 1..MaxCoefficient}

\* the reference instants: the dates of three years (a common year, a leap
\* year, and the leap year before 2100), early and late in the day, with and
\* without a sub-second part
SinceYears == {2023, 2024, 2096}

SinceDays == {1, 15, 28, 29, 30, 31}

SinceTimes ==
    {[hour |-> t[1], minute |-> t[2], second |-> t[3], nano |-> n] :
        t \in {<<0, 0, 0>>, <<23, 59, 59>>}, n \in {0, 500000000}}

SinceDates ==
    {dt \in [year : SinceYears, month : 1..12, day : SinceDays] :
        dt.day <= DaysInMonth(dt.year, dt.month)}

SinceInstants == {NaiveDateTime(dt, t) : dt \in SinceDates, t \in SinceTimes}

(***************************************************************************)
(* models/notify.rs: the rescheduling operation of EventNotify.            *)
(***************************************************************************)
SendFrequency ==
    {"OnTrigger", "DayPrior", "Daily", "Weekly", "BiWeekly", "Monthly", "Quarterly"}

\* DateTime<Utc> is the number of seconds since the Unix epoch; to_utc of a
\* DateTime<Utc> is the same instant
to_utc(datetime) == datetime

\* models/time.rs: from_duration_to_datetime (datetime + duration)
from_duration_to_datetime(datetime, duration) == datetime + duration.secs

\* NewStartDate with the durations of Weekly and BiWeekly exchanged
NewStartDate_WeeklySwapped(start_date_arg, deliver_frequency) ==
    CASE deliver_frequency = "OnTrigger" -> to_utc(start_date_arg)
      [] deliver_frequency = "DayPrior" -> start_date_arg
      [] deliver_frequency = "Daily" ->
           from_duration_to_datetime(start_date_arg, try_days(1).val)
      [] deliver_frequency = "Weekly" ->
           from_duration_to_datetime(start_date_arg, try_weeks(2).val)
      [] deliver_frequency = "BiWeekly" ->
           from_duration_to_datetime(start_date_arg, try_weeks(1).val)
      [] deliver_frequency = "Monthly" ->
           from_duration_to_datetime(start_date_arg, try_days(30).val)
      [] deliver_frequency = "Quarterly" ->
           from_duration_to_datetime(start_date_arg, try_days(90).val)

\* the start date that edit_delivery_frequency stores
NewStartDate(start_date_arg, deliver_frequency) ==
    CASE deliver_frequency = "OnTrigger" -> to_utc(start_date_arg)
      [] deliver_frequency = "DayPrior" -> start_date_arg
      [] deliver_frequency = "Daily" ->
           from_duration_to_datetime(start_date_arg, try_days(1).val)
      [] deliver_frequency = "Weekly" ->
           from_duration_to_datetime(start_date_arg, try_weeks(1).val)
      [] deliver_frequency = "BiWeekly" ->
           from_duration_to_datetime(start_date_arg, try_weeks(2).val)
      [] deliver_frequency = "Monthly" ->
           from_duration_to_datetime(start_date_arg, try_days(30).val)
      [] deliver_frequency = "Quarterly" ->
           from_duration_to_datetime(start_date_arg, try_days(90).val)

\* 2024-01-01T00:00:00Z
Baseline == 1704067200

\* the start_date arguments: whole weeks after the baseline
StartDateArgs == {Baseline + w * 7 * SECS_PER_DAY : w \in 0..MaxWeekArg}

(***************************************************************************)
(* models/time.rs: MilitaryTime and the time of day of chrono.             *)
(***************************************************************************)
\* to_naive_time handing the seconds over as the minute
to_naive_time_MinuteSecondSwapped(self) ==
    LET time == NaiveTime_from_hms_opt(self.hour, self.seconds, self.minute)
    IN  IF time.tag = "Some" THEN Ok(time.val)
        ELSE Panic("expected conversion to chrono::NaiveTime")

\* MilitaryTime::to_naive_time: expect panics on the None of from_hms_opt
to_naive_time(self) ==
    LET time == NaiveTime_from_hms_opt(self.hour, self.minute, self.seconds)
    IN  IF time.tag = "Some" THEN Ok(time.val)
        ELSE Panic("expected conversion to chrono::NaiveTime")

\* from_naive_time taking the minute as the hour
from_naive_time_MinuteAsHour(time) == MilitaryTime(time.minute, time.minute, time.second)

\* MilitaryTime::from_naive_time: Timelike::hour, minute and second
from_naive_time(time) == MilitaryTime(time.hour, time.minute, time.second)

\* the MilitaryTime values handed to to_naive_time
MilitaryHours == {0, 16, 23, 24, 25}

MilitarySixtieths == {0, 30, 59, 60, 61}

MilitaryTimes ==
    {MilitaryTime(h, m, s) :
        h \in MilitaryHours, m \in MilitarySixtieths, s \in MilitarySixtieths}

\* the times of day handed to from_naive_time: whole seconds, half a second
\* later, and a leap second
NaiveTimes ==
    [hour : {0, 12, 23}, minute : {0, 30, 59}, second : {0, 30, 59},
     nano : {0, 500000000}]
    \cup {[hour |-> 23, minute |-> 59, second |-> 59, nano |-> 1500000000]}

(***************************************************************************)
(* Identifiers, events, recipients and the tag index.                      *)
(***************************************************************************)
\* the bytes of a character in UTF-8, for the characters of the model
Utf8Len(c) == IF c = "é" THEN 2 ELSE 1

RECURSIVE ByteLen(_)
\* str::len: the length of a text in bytes
ByteLen(s) == IF s = <<>> THEN 0 ELSE Utf8Len(Head(s)) + ByteLen(Tail(s))

\* the tuple struct Prefix(String)
Prefix(prefix) == [inner |-> prefix]

\* Prefix::new rejecting a prefix of four bytes
Prefix_new_FourRejected(prefix) ==
    IF ByteLen(prefix) >= 4 THEN Err("InvalidPrefix") ELSE Ok(Prefix(prefix))

\* Prefix::new
Prefix_new(prefix) ==
    IF ByteLen(prefix) > 4 THEN Err("InvalidPrefix") ELSE Ok(Prefix(prefix))

PrefixAlphabet == {"a", "_", "é"}

\* the prefixes handed to Prefix::new: every text of up to MaxPrefixChars
\* characters, and the prefixes abcdefghi and acct
PrefixInputs ==
    Texts(PrefixAlphabet, MaxPrefixChars)
    \cup {<<"a", "b", "c", "d", "e", "f", "g", "h", "i">>, <<"a", "c", "c", "t">>}

\* the eight bytes of a u64, most significant first (readings of the model
\* stay below 2^32, so the four high bytes are zero)
U64BeBytes(n) ==
    <<0, 0, 0, 0,
      (n \div 16777216) % 256, (n \div 65536) % 256, (n \div 256) % 256, n % 256>>

RECURSIVE BeValue(_)
\* the number that bytes, most significant first, stand for
BeValue(bytes) ==
    IF bytes = <<>> THEN 0
    ELSE BeValue(SubSeq(bytes, 1, Len(bytes) - 1)) * 256 + bytes[Len(bytes)]

\* a prefix of up to four bytes, zero-padded on the right to four bytes
PadPrefix(prefix) == prefix \o [i \in 1..(4 - Len(prefix)) |-> 0]

\* GlobalId::new(prefix).to_vec() when the wall clock reads micros: the
\* padded prefix followed by the timestamp
GlobalId_new(prefix, micros) == PadPrefix(prefix) \o U64BeBytes(micros)

\* the timestamp embedded in an identifier
GlobalId_timestamp(bytes) == BeValue(SubSeq(bytes, 5, 12))

\* utils::timestamp subsec_micros in place of as_micros
timestamp_SubsecMicros(reading) == reading % 1000000

\* utils::timestamp when SystemTime::now() is reading microseconds after the
\* Unix epoch
timestamp(reading) == reading

\* the bytes of "NTFY" and of "EVNT"
NTFY == <<78, 84, 70, 89>>

EVNT == <<69, 86, 78, 84>>

\* the prefixes identifiers are generated with: the two above, "ab" and "a"
GeneratePrefixes == {NTFY, EVNT, <<97, 98>>, <<97>>}

\* the first reading of the wall clock, two microseconds before a whole second
Origin == 999998

\* Event::new at a reading of the wall clock; of the fields of an Event the
\* model keeps the identifier and the title
Event_new(title, reading) ==
    [id |-> GlobalId_new(EVNT, timestamp(reading)), title |-> title]

\* the events that exist
EventPool == {Event_new("rent", Origin), Event_new("payroll", Origin + 1)}

\* the event the notification is built for
FirstEvent == Event_new("rent", Origin)

Recipient(recipient_id) == [recipient_id |-> recipient_id]

RecipientIds == {"a@x", "b@x"}

\* the HashMap of EventManager::new
EmptyTagsMap == [k \in {} |-> {}]

TagNames == {"tag1", "tag2", "tag3"}

\* the tag vectors handed to tag_event
TagVectors == Texts(TagNames, MaxTagVec)

\* the event ids handed to remove_event_from_tag: those of the events that
\* exist and one of no event
EventIdArgs == {e.id : e \in EventPool} \cup {<<1, 2, 3>>}

Range(f) == {f[i] : i \in DOMAIN f}

\* Vec::retain of remove_recipient
Retain(rs, recipient_id) == SelectSeq(rs, LAMBDA r : r.recipient_id # recipient_id)

\* Iterator::position of update_recipient
Position(rs, recipient_id) ==
    IF \E i \in 1..Len(rs) : rs[i].recipient_id = recipient_id
    THEN Some(CHOOSE i \in 1..Len(rs) :
                /\ rs[i].recipient_id = recipient_id
                /\ \A j \in 1..(i - 1) : rs[j].recipient_id # recipient_id)
    ELSE None

\* EventManager::get_tags_for_event
get_tags_for_event(map, event_id) ==
    IF event_id \in DOMAIN map THEN Some(map[event_id]) ELSE None

\* a call of an EventManager operation: its name, the event id and the tags
\* handed to it, the map it found and what it returned
ManagerCall(name, event_id, tags, before, returned) ==
    [op |-> name, event_id |-> event_id, tags |-> tags, before |-> before,
     ret |-> returned]

NoManagerCall == ManagerCall("none", <<>>, <<>>, EmptyTagsMap, None)

\* tag_event replacing the tags of the event by the tags of the list
TagEventMap_Replaces(map, event, tags) ==
    IF tags = <<>> THEN map
    ELSE [k \in DOMAIN map \cup {event.id} |->
            IF k = event.id THEN Range(tags) ELSE map[k]]

\* the map after tag_event(event, tags)
TagEventMap(map, event, tags) ==
    IF tags = <<>> THEN map
    ELSE [k \in DOMAIN map \cup {event.id} |->
            IF k = event.id
            THEN (IF k \in DOMAIN map THEN map[k] ELSE {}) \cup Range(tags)
            ELSE map[k]]

\* delete_tag leaving alone a tag that more than one event carries
DeleteTagMap_SharedTagKept(map, tag) ==
    IF Cardinality({e \in DOMAIN map : tag \in map[e]}) > 1 THEN map
    ELSE [k \in {e \in DOMAIN map : map[e] \ {tag} # {}} |-> map[k] \ {tag}]

\* the map after delete_tag(tag)
DeleteTagMap(map, tag) ==
    [k \in {e \in DOMAIN map : map[e] \ {tag} # {}} |-> map[k] \ {tag}]

\* the recipients after update_recipient(recipient_id, new_recipient)
update_recipient(rs, recipient_id, new_recipient) ==
    LET index == Position(rs, recipient_id) IN
    IF index.tag = "Some" THEN [rs EXCEPT ![index.val] = new_recipient] ELSE rs

\* remove_event_from_tag keeping the entry of an event left without tags
RemoveEventFromTagMap_KeepsEmptied(map, event_id, tag) ==
    IF event_id \in DOMAIN map
    THEN [k \in DOMAIN map |-> IF k = event_id THEN map[k] \ {tag} ELSE map[k]]
    ELSE map

\* the map after remove_event_from_tag(event_id, tag)
RemoveEventFromTagMap(map, event_id, tag) ==
    IF event_id \in DOMAIN map
    THEN [k \in {e \in DOMAIN map : e # event_id \/ map[e] \ {tag} # {}} |->
            IF k = event_id THEN map[k] \ {tag} ELSE map[k]]
    ELSE map

\* the unit letter that Display writes for a variant
UnitOfVariant(v) ==
    CASE v = "Year" -> "y" [] v = "Month" -> "m" [] v = "Week" -> "w" [] v = "Day" -> "d"

\* Display writing the coefficient before the unit and the amount after it
Epoch_fmt_AmountCoefficientSwapped(self) ==
    IF self.variant = "SingleDay" THEN <<"1", "d", "1", "x">>
    ELSE IntText(self.data.coefficient) \o <<UnitOfVariant(self.variant)>>
             \o IntText(self.data.amount) \o <<"x">>

\* <Epoch as Display>::fmt, the text of to_string
Epoch_fmt(self) ==
    IF self.variant = "SingleDay" THEN <<"1", "d", "1", "x">>
    ELSE IntText(self.data.amount) \o <<UnitOfVariant(self.variant)>>
             \o IntText(self.data.coefficient) \o <<"x">>

\* the Epoch values that are displayed: those of the duration operations and
\* some with longer numerals
DisplayValues ==
    EpochValues
    \cup {[variant |-> v, data |-> CalendarData(a, c)] :
             v \in {"Year", "Month", "Week", "Day"}, a \in {1, 120}, c \in {1, 1000}}

(***************************************************************************)
(* The state machine.                                                      *)
(***************************************************************************)
\* no operation has been called; the notification was built by
\* EventNotify::new for the first event with Weekly, no recipients and the
\* baseline as its start_date, and the tag index by EventManager::new.  A
\* behaviour makes one call of a pure operation, or a sequence of operations
\* on the notification, or on the tag index, or of identifier generations
\* while the wall clock moves.
Init ==
    /\ op = "none"
    /\ arg = <<>>
    /\ ret = None
    /\ start_date = Baseline
    /\ delivery_frequency = "Weekly"
    /\ calls = <<>>
    /\ id = GlobalId_new(NTFY, timestamp(Origin))
    /\ scheduled_event = FirstEvent
    /\ recipients = <<>>
    /\ event_tags_map = EmptyTagsMap
    /\ manager_call = NoManagerCall
    /\ now = Origin
    /\ generated = <<>>

notifyVars ==
    <<start_date, delivery_frequency, calls, id, scheduled_event, recipients>>

managerVars == <<event_tags_map, manager_call>>

clockVars == <<now, generated>>

objectVars == <<notifyVars, managerVars, clockVars>>

\* no pure operation has been called
CallIdle == op = "none"

\* the notification is as EventNotify::new built it
NotifyIdle == calls = <<>> /\ recipients = <<>> /\ scheduled_event = FirstEvent

\* the tag index is as EventManager::new built it
ManagerIdle == event_tags_map = EmptyTagsMap /\ manager_call = NoManagerCall

\* the wall clock has not moved and no identifier has been generated
ClockIdle == now = Origin /\ generated = <<>>

\* nothing has been called yet: a pure operation is called once, on its own
Fresh == CallIdle /\ NotifyIdle /\ ManagerIdle /\ ClockIdle

callVars == <<op, arg, ret>>

\* a call of <Epoch as FromStr>::from_str
EpochFromStr ==
    /\ Fresh
    /\ \E s \in EpochInputs :
        /\ op' = "Epoch::from_str"
        /\ arg' = s
        /\ ret' = Epoch_from_str(s)
        /\ UNCHANGED objectVars

\* a call of to_string on an Epoch
EpochToString ==
    /\ Fresh
    /\ \E e \in DisplayValues :
        /\ op' = "Epoch::to_string"
        /\ arg' = [self |-> e]
        /\ ret' = Ok(Epoch_fmt(e))
        /\ UNCHANGED objectVars

\* a call of SignalTrigger::from_str
SignalTriggerFromStr ==
    /\ Fresh
    /\ \E s \in SignalInputs :
        /\ op' = "SignalTrigger::from_str"
        /\ arg' = s
        /\ ret' = SignalTrigger_from_str(s)
        /\ UNCHANGED objectVars

\* a call of MilitaryTime::from_str
MilitaryTimeFromStr ==
    /\ Fresh
    /\ \E s \in MilitaryInputs :
        /\ op' = "MilitaryTime::from_str"
        /\ arg' = s
        /\ ret' = MilitaryTime_from_str(s)
        /\ UNCHANGED objectVars

\* a call of MilitaryTime::to_naive_time
ToNaiveTime ==
    /\ Fresh
    /\ \E m \in MilitaryTimes :
        /\ op' = "MilitaryTime::to_naive_time"
        /\ arg' = [self |-> m]
        /\ ret' = to_naive_time(m)
        /\ UNCHANGED objectVars

\* a call of MilitaryTime::from_naive_time
FromNaiveTime ==
    /\ Fresh
    /\ \E t \in NaiveTimes :
        /\ op' = "MilitaryTime::from_naive_time"
        /\ arg' = [time |-> t]
        /\ ret' = Ok(from_naive_time(t))
        /\ UNCHANGED objectVars

\* a call of Prefix::new
PrefixNew ==
    /\ Fresh
    /\ \E prefix \in PrefixInputs :
        /\ op' = "Prefix::new"
        /\ arg' = prefix
        /\ ret' = Prefix_new(prefix)
        /\ UNCHANGED objectVars

\* a call of Epoch::calculate_days_since
CalculateDaysSince ==
    /\ Fresh
    /\ \E e \in EpochValues, since \in SinceInstants :
        /\ op' = "Epoch::calculate_days_since"
        /\ arg' = [self |-> e, since |-> since]
        /\ ret' = calculate_days_since(e, since)
        /\ UNCHANGED objectVars

\* a call of Epoch::to_duration
ToDuration ==
    /\ Fresh
    /\ \E e \in EpochValues :
        /\ op' = "Epoch::to_duration"
        /\ arg' = [self |-> e]
        /\ ret' = to_duration(e)
        /\ UNCHANGED objectVars

\* edit_delivery_frequency displacing from the start_date the record holds
EditDeliveryFrequency_FromHeld ==
    /\ CallIdle /\ ManagerIdle /\ ClockIdle
    /\ Len(calls) < MaxCalls
    /\ \E s \in StartDateArgs, f \in SendFrequency :
        /\ delivery_frequency' = f
        /\ start_date' = NewStartDate(start_date, f)
        /\ calls' = Append(calls, [start_date |-> s, deliver_frequency |-> f,
                                   held |-> start_date])
        /\ UNCHANGED <<id, scheduled_event, recipients>>
        /\ UNCHANGED <<callVars, managerVars, clockVars>>

\* EventNotify::edit_delivery_frequency, at most MaxCalls times in a row
EditDeliveryFrequency ==
    /\ CallIdle /\ ManagerIdle /\ ClockIdle
    /\ Len(calls) < MaxCalls
    /\ \E s \in StartDateArgs, f \in SendFrequency :
        /\ delivery_frequency' = f
        /\ start_date' = NewStartDate(s, f)
        /\ calls' = Append(calls, [start_date |-> s, deliver_frequency |-> f,
                                   held |-> start_date])
        /\ UNCHANGED <<id, scheduled_event, recipients>>
        /\ UNCHANGED <<callVars, managerVars, clockVars>>

\* EventNotify::add_recipient
AddRecipient ==
    /\ CallIdle /\ ManagerIdle /\ ClockIdle
    /\ Len(recipients) < MaxRecipients
    /\ \E r \in RecipientIds :
        /\ recipients' = Append(recipients, Recipient(r))
        /\ UNCHANGED <<start_date, delivery_frequency, calls, id, scheduled_event>>
        /\ UNCHANGED <<callVars, managerVars, clockVars>>

\* EventNotify::remove_recipient
RemoveRecipient ==
    /\ CallIdle /\ ManagerIdle /\ ClockIdle
    /\ \E recipient_id \in RecipientIds :
        /\ recipients' = Retain(recipients, recipient_id)
        /\ UNCHANGED <<start_date, delivery_frequency, calls, id, scheduled_event>>
        /\ UNCHANGED <<callVars, managerVars, clockVars>>

\* EventNotify::update_recipient
UpdateRecipient ==
    /\ CallIdle /\ ManagerIdle /\ ClockIdle
    /\ \E recipient_id \in RecipientIds, new_recipient \in RecipientIds :
        /\ recipients' =
              update_recipient(recipients, recipient_id, Recipient(new_recipient))
        /\ UNCHANGED <<start_date, delivery_frequency, calls, id, scheduled_event>>
        /\ UNCHANGED <<callVars, managerVars, clockVars>>

\* set_event storing the identifier of the event as the notification's own
SetEvent_TakesEventId ==
    /\ CallIdle /\ ManagerIdle /\ ClockIdle
    /\ \E event \in EventPool :
        /\ scheduled_event' = event
        /\ id' = event.id
        /\ UNCHANGED <<start_date, delivery_frequency, calls, recipients>>
        /\ UNCHANGED <<callVars, managerVars, clockVars>>

\* EventNotify::set_event
SetEvent ==
    /\ CallIdle /\ ManagerIdle /\ ClockIdle
    /\ \E event \in EventPool :
        /\ scheduled_event' = event
        /\ UNCHANGED <<start_date, delivery_frequency, calls, id, recipients>>
        /\ UNCHANGED <<callVars, managerVars, clockVars>>

\* EventManager::tag_event
TagEvent ==
    /\ CallIdle /\ NotifyIdle /\ ClockIdle
    /\ \E event \in EventPool, tags \in TagVectors :
        /\ event_tags_map' = TagEventMap(event_tags_map, event, tags)
        /\ manager_call' = ManagerCall("tag_event", event.id, tags,
                                       event_tags_map, None)
        /\ UNCHANGED <<callVars, notifyVars, clockVars>>

\* EventManager::delete_tag
DeleteTag ==
    /\ CallIdle /\ NotifyIdle /\ ClockIdle
    /\ \E tag \in TagNames :
        /\ event_tags_map' = DeleteTagMap(event_tags_map, tag)
        /\ manager_call' = ManagerCall("delete_tag", <<>>, <<tag>>,
                                       event_tags_map, None)
        /\ UNCHANGED <<callVars, notifyVars, clockVars>>

\* EventManager::remove_event_from_tag
RemoveEventFromTag ==
    /\ CallIdle /\ NotifyIdle /\ ClockIdle
    /\ \E event_id \in EventIdArgs, tag \in TagNames :
        /\ event_tags_map' = RemoveEventFromTagMap(event_tags_map, event_id, tag)
        /\ manager_call' = ManagerCall("remove_event_from_tag", event_id, <<tag>>,
                                       event_tags_map, None)
        /\ UNCHANGED <<callVars, notifyVars, clockVars>>

\* EventManager::get_tags_for_event, which leaves the map as it is
GetTagsForEvent ==
    /\ CallIdle /\ NotifyIdle /\ ClockIdle
    /\ \E event_id \in EventIdArgs :
        /\ manager_call' = ManagerCall("get_tags_for_event", event_id, <<>>,
                                       event_tags_map,
                                       get_tags_for_event(event_tags_map, event_id))
        /\ UNCHANGED <<event_tags_map, callVars, notifyVars, clockVars>>

\* the wall clock advances by a microsecond
ClockAdvance ==
    /\ CallIdle /\ NotifyIdle /\ ManagerIdle
    /\ now < Origin + MaxTicks
    /\ now' = now + 1
    /\ UNCHANGED <<generated, callVars, notifyVars, managerVars>>

\* the wall clock is stepped backwards, as a clock adjustment does
ClockStepBack ==
    /\ CallIdle /\ NotifyIdle /\ ManagerIdle
    /\ now > Origin
    /\ \E reading \in Origin..(now - 1) :
        /\ now' = reading
        /\ UNCHANGED <<generated, callVars, notifyVars, managerVars>>

\* GlobalId::new(prefix), which samples the wall clock; the log keeps the
\* identifier and the reading sampled
GenerateId ==
    /\ CallIdle /\ NotifyIdle /\ ManagerIdle
    /\ Len(generated) < MaxIds
    /\ \E prefix \in GeneratePrefixes :
        /\ generated' = Append(generated,
                               [bytes |-> GlobalId_new(prefix, timestamp(now)),
                                sampled |-> now])
        /\ UNCHANGED <<now, callVars, notifyVars, managerVars>>

NextParse ==
    \/ EpochFromStr
    \/ EpochToString
    \/ SignalTriggerFromStr
    \/ MilitaryTimeFromStr

NextDuration == CalculateDaysSince \/ ToDuration

NextTime == MilitaryTimeFromStr \/ ToNaiveTime \/ FromNaiveTime

NextUid == PrefixNew

NextNotify ==
    \/ EditDeliveryFrequency
    \/ AddRecipient
    \/ RemoveRecipient
    \/ UpdateRecipient
    \/ SetEvent

NextManager == TagEvent \/ DeleteTag \/ RemoveEventFromTag \/ GetTagsForEvent

NextClock == ClockAdvance \/ ClockStepBack \/ GenerateId

Next ==
    \/ NextParse
    \/ NextDuration
    \/ NextTime
    \/ NextUid
    \/ NextNotify
    \/ NextManager
    \/ NextClock

\* the parsers, and the Display of Epoch
SpecParse == Init /\ [][NextParse]_vars

\* the duration operations of Epoch
SpecDuration == Init /\ [][NextDuration]_vars

\* MilitaryTime: parsing and the conversions to and from a time of day
SpecTime == Init /\ [][NextTime]_vars

\* the prefix of a unique identifier
SpecUid == Init /\ [][NextUid]_vars

\* the notification record
SpecNotify == Init /\ [][NextNotify]_vars

\* the tag index
SpecManager == Init /\ [][NextManager]_vars

\* the notification record and the tag index
SpecRecords == Init /\ [][NextNotify \/ NextManager]_vars

\* identifier generation under a wall clock that may be stepped backwards
SpecClock == Init /\ [][NextClock]_vars

Spec == Init /\ [][Next]_vars

(***************************************************************************)
(* Properties of the Epoch grammar.                                        *)
(***************************************************************************)
\* the variant that the grammar assigns to a unit letter
VariantOfUnit(u) ==
    CASE u = "y" -> "Year" [] u = "m" -> "Month" [] u = "w" -> "Week" [] u = "d" -> "Day"

\* the Epoch that a canonical text with amount a, unit u and coefficient c
\* stands for
CanonicalEpoch(a, u, c) ==
    IF u = "d" /\ a = 1 /\ c = 1 THEN SingleDay
    ELSE [variant |-> VariantOfUnit(u), data |-> CalendarData(a, c)]

\* every canonical text of the model with the Epoch it stands for
CanonicalCases ==
    {[text |-> CanonicalText(a, u, c, TRUE), epoch |-> CanonicalEpoch(a, u, c)] :
        a \in 1..MaxCanon, u \in UnitLetters, c \in 1..MaxCanon}
    \cup {[text |-> CanonicalText(a, u, 1, FALSE), epoch |-> CanonicalEpoch(a, u, 1)] :
        a \in 1..MaxCanon, u \in UnitLetters}

\* C1: Epoch::from_str of a canonical text <a><u><c>x or <a><u> (a, c >= 1
\* without leading zeros, u one of y, m, w, d) is Ok of the variant of u with
\* amount a and coefficient c (c = 1 without the suffix), except that 1d and
\* 1d1x give SingleDay.
C1_CanonicalTextParses ==
    op = "Epoch::from_str" =>
        \A k \in CanonicalCases : arg = k.text => ret = Ok(k.epoch)

C1_Witness ==
    /\ op = "Epoch::from_str"
    /\ arg = <<"3", "m", "4", "x">>
    /\ ret = Ok(Month(CalendarData(3, 4)))

\* the texts without an amount, with the Epoch the grammar gives them
NoAmountCases ==
    {[text |-> <<u>>,
      epoch |-> [variant |-> VariantOfUnit(u), data |-> CalendarData(1, 1)]] :
        u \in UnitLetters}
    \cup {[text |-> <<u>> \o ToDigits(c) \o <<"x">>,
           epoch |-> [variant |-> VariantOfUnit(u), data |-> CalendarData(1, c)]] :
        u \in UnitLetters, c \in 1..MaxCanon}

\* C2: the leading amount is optional and defaults to 1: Epoch::from_str of a
\* unit letter u alone, or of u followed by <c>x, is Ok of the variant of u
\* with amount 1.
C2_AmountDefaultsToOne ==
    op = "Epoch::from_str" =>
        \A k \in NoAmountCases : arg = k.text => ret = Ok(k.epoch)

\* the texts <a><q> and <a><q><c>x whose unit letter q is none of y, w, m, d
UnknownUnitTexts ==
    {ToDigits(a) \o <<q>> : a \in 1..MaxCanon, q \in {"q", "h"}}
    \cup {ToDigits(a) \o <<q>> \o ToDigits(c) \o <<"x">> :
             a \in 1..MaxCanon, q \in {"q", "h"}, c \in 1..MaxCanon}

\* C3: Epoch::from_str of a text whose unit letter is none of y, w, m, d
\* (3q, 2h4x) is Err(InvalidInputString), never an Epoch.
C3_UnknownUnitRejected ==
    (op = "Epoch::from_str" /\ arg \in UnknownUnitTexts) =>
        ret = Err("InvalidInputString")

\* C8: no parser panics: Epoch::from_str, SignalTrigger::from_str and
\* MilitaryTime::from_str return Ok or Err for every text, also when a
\* numeric field has more digits than its integer type holds.
C8_ParsersNeverPanic ==
    op \in {"Epoch::from_str", "SignalTrigger::from_str", "MilitaryTime::from_str"} =>
        ret.tag \in {"Ok", "Err"}

\* C9: every Epoch that Epoch::from_str returns with CalendarData has
\* amount >= 1 and coefficient >= 1, whatever the text.
C9_CalendarDataPositive ==
    (op = "Epoch::from_str" /\ ret.tag = "Ok" /\ ret.val.variant # "SingleDay") =>
        /\ ret.val.data.amount >= 1
        /\ ret.val.data.coefficient >= 1

C9_Witness ==
    /\ op = "Epoch::from_str"
    /\ arg = <<"0", "d", "0", "x">>
    /\ ret = Ok(Day(CalendarData(1, 1)))

(***************************************************************************)
(* Properties of the duration operations.                                  *)
(***************************************************************************)
\* the year and month that lie n months after month m of year y
MonthsLater(y, m, n) ==
    LET total == (m - 1) + n
    IN  [year |-> y + (total \div 12), month |-> (total % 12) + 1]

\* the date that a Month or Year epoch aims at from the date d: the same
\* day of the month, amount * coefficient months (years) later
TargetDate(self, d) ==
    IF self.variant = "Month"
    THEN LET t == MonthsLater(d.year, d.month, self.data.amount * self.data.coefficient)
         IN  [year |-> t.year, month |-> t.month, day |-> d.day]
    ELSE [year |-> d.year + self.data.amount * self.data.coefficient,
          month |-> d.month, day |-> d.day]

DateExists(d) == d.month \in 1..12 /\ d.day >= 1 /\ d.day <= DaysInMonth(d.year, d.month)

\* the number of calendar days from the date a to the date b
CalendarDaysBetween(a, b) == num_days_from_ce(b) - num_days_from_ce(a)

\* C4: for Month{amount, coefficient} with 1 <= amount <= 12 and a reference
\* instant of whole seconds whose day of the month exists in the target
\* month, calculate_days_since is the number of calendar days from the
\* reference date to the same day amount * coefficient months later.
C4_MonthDaysExact ==
    (/\ op = "Epoch::calculate_days_since"
     /\ arg.self.variant = "Month"
     /\ arg.self.data.amount \in 1..12
     /\ arg.since.time.nano = 0
     /\ DateExists(TargetDate(arg.self, arg.since.date))) =>
        ret = Ok(CalendarDaysBetween(arg.since.date, TargetDate(arg.self, arg.since.date)))

C4_Witness ==
    /\ op = "Epoch::calculate_days_since"
    /\ arg.self = Month(CalendarData(1, 1))
    /\ arg.since.date = [year |-> 2024, month |-> 2, day |-> 1]
    /\ arg.since.time = [hour |-> 0, minute |-> 0, second |-> 0, nano |-> 0]
    /\ ret = Ok(29)

\* C5: when the target date of calculate_days_since does not exist (Jan 31
\* plus one month; Feb 29 into a common year) the operation fails with a
\* CalendarConstructionError returned to the caller; it neither clamps the
\* day nor panics.
C5_MissingTargetIsTypedError ==
    (/\ op = "Epoch::calculate_days_since"
     /\ arg.self.variant \in {"Month", "Year"}
     /\ ~DateExists(TargetDate(arg.self, arg.since.date))) =>
        ret = Err("CalendarConstructionError")

\* C6: for Year{amount, coefficient} and a reference instant whose month and
\* day exist in the target year, calculate_days_since is the number of
\* calendar days from the reference date to the same month and day
\* coefficient * amount years later.
C6_YearDaysExact ==
    (/\ op = "Epoch::calculate_days_since"
     /\ arg.self.variant = "Year"
     /\ DateExists(TargetDate(arg.self, arg.since.date))) =>
        ret = Ok(CalendarDaysBetween(arg.since.date, TargetDate(arg.self, arg.since.date)))

\* the fixed number of days of one unit
DaysPerUnit(variant) ==
    CASE variant = "Year" -> 365 [] variant = "Month" -> 30
      [] variant = "Week" -> 7 [] variant = "Day" -> 1

\* C7: to_duration is exactly amount * coefficient * K days, K = 365 for
\* Year, 30 for Month, 7 for Week, 1 for Day, and exactly 1 day for SingleDay.
C7_FixedDuration ==
    op = "Epoch::to_duration" =>
        ret = Ok(TimeDelta(
                   (IF arg.self.variant = "SingleDay" THEN 1
                    ELSE arg.self.data.amount * arg.self.data.coefficient
                         * DaysPerUnit(arg.self.variant)) * 86400, 0))

C7_Witness ==
    /\ op = "Epoch::to_duration"
    /\ arg.self = Year(CalendarData(1, 1))
    /\ ret = Ok(TimeDelta(365 * 86400, 0))

(***************************************************************************)
(* Properties of the rescheduling operation.                               *)
(***************************************************************************)
\* the last two calls of edit_delivery_frequency were made with Weekly
TwoWeeklyCalls ==
    /\ Len(calls) >= 2
    /\ calls[Len(calls) - 1].deliver_frequency = "Weekly"
    /\ calls[Len(calls)].deliver_frequency = "Weekly"

FirstOfTwo == calls[Len(calls) - 1]

SecondOfTwo == calls[Len(calls)]

\* C10 as stated: two calls in sequence with Weekly leave start_date 14 days
\* after the start_date that the record held before the first of them, each
\* call displacing from the start_date the record holds.
C10_TwoWeeklyCallsAddFourteenDays ==
    TwoWeeklyCalls => start_date = FirstOfTwo.held + 14 * 86400

\* C10 amended: two calls in sequence with Weekly leave start_date 7 days
\* after the start_date argument of the second call; that is 14 days after
\* the original baseline when each call is passed the start_date the record
\* holds at that moment.
C10_TwoWeeklyCallsFromArgument ==
    TwoWeeklyCalls =>
        /\ start_date = SecondOfTwo.start_date + 7 * 86400
        /\ (/\ FirstOfTwo.start_date = FirstOfTwo.held
            /\ SecondOfTwo.start_date = SecondOfTwo.held) =>
               start_date = FirstOfTwo.held + 14 * 86400

C10_Witness ==
    /\ TwoWeeklyCalls
    /\ FirstOfTwo.start_date = FirstOfTwo.held
    /\ SecondOfTwo.start_date = SecondOfTwo.held
    /\ start_date = Baseline + 14 * 86400

(***************************************************************************)
(* Properties of the rescheduling table.                                   *)
(***************************************************************************)
\* the days that the rescheduling table adds for a frequency
OffsetDays(f) ==
    CASE f = "OnTrigger" -> 0
      [] f = "DayPrior" -> 0
      [] f = "Daily" -> 1
      [] f = "Weekly" -> 7
      [] f = "BiWeekly" -> 14
      [] f = "Monthly" -> 30
      [] f = "Quarterly" -> 90

LastCall == calls[Len(calls)]

\* C11: after edit_delivery_frequency(s, f) the stored delivery frequency is
\* f and the stored start_date is s plus the offset of f (nothing for
\* OnTrigger and DayPrior, 1 day for Daily, 7 for Weekly, 14 for BiWeekly,
\* 30 for Monthly, 90 for Quarterly), whatever the record held before.
C11_StoresFrequencyAndDisplacedStart ==
    Len(calls) >= 1 =>
        /\ delivery_frequency = LastCall.deliver_frequency
        /\ start_date =
               LastCall.start_date + OffsetDays(LastCall.deliver_frequency) * 86400

\* a Quarterly edit of a record that held another frequency and a start_date
\* different from the argument
C11_Witness ==
    /\ Len(calls) = 2
    /\ LastCall.deliver_frequency = "Quarterly"
    /\ calls[1].deliver_frequency = "Daily"
    /\ LastCall.held # LastCall.start_date
    /\ LastCall.held # Baseline
    /\ start_date = LastCall.start_date + 90 * 86400

(***************************************************************************)
(* Properties of the identifiers.                                          *)
(***************************************************************************)
\* C12: the identifier of an Event and of an EventNotify is assigned once at
\* construction and is the same in every later state: the notification keeps
\* the identifier EventNotify::new gave it through every add_recipient,
\* remove_recipient, update_recipient, edit_delivery_frequency and set_event
\* (which replaces the embedded event only), the embedded event is one of
\* the events as Event::new built them, and the tag index is keyed by their
\* identifiers.
C12_IdentifiersNeverChange ==
    /\ id = GlobalId_new(NTFY, timestamp(Origin))
    /\ \A e \in EventPool : scheduled_event.title = e.title => scheduled_event.id = e.id
    /\ \E e \in EventPool : scheduled_event.title = e.title
    /\ \A k \in DOMAIN event_tags_map : \E e \in EventPool : k = e.id

\* the notification after a rescheduling, with a recipient left after an
\* addition and an update, and another event set
C12_Witness ==
    /\ Len(calls) >= 1
    /\ recipients = <<Recipient("b@x")>>
    /\ scheduled_event # FirstEvent
    /\ scheduled_event.id # FirstEvent.id
    /\ id = GlobalId_new(NTFY, timestamp(Origin))

(***************************************************************************)
(* Properties of the trigger grammars.                                     *)
(***************************************************************************)
\* the well-formed signal texts with the numbers they are written from
SignalCases ==
    {[text |-> SignalText(h, m, s, n, p), hour |-> h, minute |-> m, seconds |-> s,
      interval |-> n] :
        h \in SignalHours, m \in SignalMinutes, s \in SignalSeconds,
        n \in SignalIntervalValues, p \in BOOLEAN}

\* C13: SignalTrigger::from_str on M<h>:<m>:<s>::I<n>, with h, m, s decimal
\* unsigned integers and n a decimal integer, returns Ok of the trigger whose
\* time is MilitaryTime{h, m, s} and whose interval_seconds is n.
C13_WellFormedSignalParses ==
    op = "SignalTrigger::from_str" =>
        \A c \in SignalCases :
            arg = c.text =>
                ret = Ok([time |-> [hour |-> c.hour, minute |-> c.minute,
                                    seconds |-> c.seconds],
                          interval_seconds |-> c.interval])

\* M16:30:25::I86400 gives {16,30,25} and 86400
C13_Witness ==
    /\ op = "SignalTrigger::from_str"
    /\ arg = <<"M", "1", "6", ":", "3", "0", ":", "2", "5", ":", ":", "I",
               "8", "6", "4", "0", "0">>
    /\ ret = Ok([time |-> [hour |-> 16, minute |-> 30, seconds |-> 25],
                 interval_seconds |-> 86400])

\* an optional sign followed by one or more digits
IsIntegerText(s) ==
    LET digits == IF s # <<>> /\ Head(s) \in {"+", "-"} THEN Tail(s) ELSE s
    IN  digits # <<>> /\ \A i \in 1..Len(digits) : IsDigit(digits[i])

\* the segments of a signal text
SignalSegments(s) == Split(Trim(s), <<":", ":", "I">>)

\* C14: SignalTrigger::from_str returns an error for every malformed input:
\* InvalidInputString when splitting on the interval delimiter does not give
\* exactly two segments, whatever the segments hold; otherwise ParseError
\* when the time segment is not a valid MilitaryTime string, whatever the
\* interval is, or when the interval segment is not an integer; and each of
\* the malformed texts of the tests yields Err.
C14_MalformedSignalRejected ==
    op = "SignalTrigger::from_str" =>
        LET parts == SignalSegments(arg) IN
        /\ Len(parts) # 2 => ret = Err("InvalidInputString")
        /\ Len(parts) = 2 =>
             /\ MilitaryTime_from_str(TrimStartMatches(parts[1], "M")).tag # "Ok"
                    => ret = Err("ParseError")
             /\ ~IsIntegerText(parts[2]) => ret = Err("ParseError")
        /\ arg \in SignalExamples => ret.tag = "Err"

\* an interval that is not an integer after a valid time
C14_Witness ==
    /\ op = "SignalTrigger::from_str"
    /\ arg = <<"M", "1", "6", ":", "3", "0", ":", "2", "5", ":", ":", "I",
               "i", "n", "v", "a", "l", "i", "d">>
    /\ ret = Err("ParseError")

\* C15: the interval segment of a signal-trigger text is parsed as a
\* non-negative integer: every SignalTrigger that SignalTrigger::from_str
\* returns has interval_seconds >= 0, and M16:30:25::I-5 is rejected with
\* ParseError.
C15_IntervalNonNegative ==
    op = "SignalTrigger::from_str" =>
        /\ ret.tag = "Ok" => ret.val.interval_seconds >= 0
        /\ arg = SignalText(16, 30, 25, -5, FALSE) => ret = Err("ParseError")

\* an optional plus sign followed by one or more digits
IsUnsignedText(s) ==
    LET digits == IF s # <<>> /\ Head(s) = "+" THEN Tail(s) ELSE s
    IN  digits # <<>> /\ \A i \in 1..Len(digits) : IsDigit(digits[i])

\* the colon-delimited fields of a time text
TimeFieldsOf(s) == Split(Trim(s), <<":">>)

\* the time text does not have exactly three fields
WrongFieldCount(s) == Len(TimeFieldsOf(s)) # 3

\* the time text has three fields, one of them not an unsigned integer
BadField(s) ==
    /\ Len(TimeFieldsOf(s)) = 3
    /\ \E i \in 1..3 : ~IsUnsignedText(TimeFieldsOf(s)[i])

\* C16 as stated: MilitaryTime::from_str fails with ParseError both when the
\* input does not split into exactly three colon-delimited fields and when
\* one of the three fields is not an unsigned integer.
C16_ParseErrorForCountAndField ==
    (op = "MilitaryTime::from_str" /\ (WrongFieldCount(arg) \/ BadField(arg)))
        => ret = Err("ParseError")

\* C16 amended: MilitaryTime::from_str fails with InvalidInputString when the
\* input does not split into exactly three colon-delimited fields, and with
\* ParseError when it does and one of the three fields is not an unsigned
\* integer.
C16_InvalidInputForCountParseErrorForField ==
    op = "MilitaryTime::from_str" =>
        /\ WrongFieldCount(arg) => ret = Err("InvalidInputString")
        /\ BadField(arg) => ret = Err("ParseError")

\* a text of two fields, both unsigned integers
C16_Witness ==
    /\ op = "MilitaryTime::from_str"
    /\ arg = <<"1", "6", ":", "0", "5">>
    /\ ret = Err("InvalidInputString")

\* the texts of an unsigned integer field with the number they stand for
UnsignedFieldCases ==
    {[text |-> <<"1", "6">>, val |-> 16], [text |-> <<"0", "5">>, val |-> 5],
     [text |-> <<"6", "1">>, val |-> 61], [text |-> <<"+", "7">>, val |-> 7],
     [text |-> <<"2", "5">>, val |-> 25]}

\* the texts of three unsigned integer fields
ThreeFieldCases ==
    {[text |-> h.text \o <<":">> \o m.text \o <<":">> \o s.text,
      time |-> MilitaryTime(h.val, m.val, s.val)] :
        h \in UnsignedFieldCases, m \in UnsignedFieldCases, s \in UnsignedFieldCases}

OutOfRange(m) == m.hour > 23 \/ m.minute > 59 \/ m.seconds > 59

\* C17: the bounds of a MilitaryTime are checked lazily: from_str accepts any
\* three unsigned integer fields (25:61:61 parses to MilitaryTime{25,61,61}),
\* and to_naive_time fails exactly when hour > 23 or minute > 59 or
\* seconds > 59 and otherwise succeeds with that hour, minute and second.
C17_BoundsCheckedAtConversion ==
    /\ op = "MilitaryTime::from_str" =>
          \A c \in ThreeFieldCases : arg = c.text => ret = Ok(c.time)
    /\ op = "MilitaryTime::to_naive_time" =>
          /\ OutOfRange(arg.self) <=> ret.tag # "Ok"
          /\ ~OutOfRange(arg.self) =>
                ret = Ok([hour |-> arg.self.hour, minute |-> arg.self.minute,
                          second |-> arg.self.seconds, nano |-> 0])

\* the conversion of the MilitaryTime that 25:61:61 parses to fails
C17_Witness ==
    /\ op = "MilitaryTime::to_naive_time"
    /\ Ok(arg.self) = MilitaryTime_from_str(<<"2", "5", ":", "6", "1", ":", "6", "1">>)
    /\ arg.self = MilitaryTime(25, 61, 61)
    /\ ret.tag = "Panic"

\* a time of day cut to its whole second
WholeSecond(t) == [t EXCEPT !.nano = 0]

\* C18 as stated: from_naive_time is the inverse of to_naive_time and always
\* succeeds: from_naive_time(to_naive_time(m)) = m for every in-range m, and
\* to_naive_time(from_naive_time(t)) = t for every time of day t, a t with a
\* sub-second part included.
C18_InverseBothWays ==
    /\ (op = "MilitaryTime::to_naive_time" /\ ret.tag = "Ok") =>
          from_naive_time(ret.val) = arg.self
    /\ op = "MilitaryTime::from_naive_time" =>
          /\ ret.tag = "Ok"
          /\ to_naive_time(ret.val) = Ok(arg.time)

\* C18 amended: from_naive_time always succeeds;
\* from_naive_time(to_naive_time(m)) = m for every in-range m, and
\* to_naive_time(from_naive_time(t)) is t cut to its whole second, which is t
\* exactly when t has no sub-second part.
C18_InverseUpToWholeSecond ==
    /\ (op = "MilitaryTime::to_naive_time" /\ ret.tag = "Ok") =>
          from_naive_time(ret.val) = arg.self
    /\ op = "MilitaryTime::from_naive_time" =>
          /\ ret.tag = "Ok"
          /\ to_naive_time(ret.val) = Ok(WholeSecond(arg.time))
          /\ to_naive_time(ret.val) = Ok(arg.time) <=> arg.time.nano = 0

\* 12:30:59 and half a second comes back as 12:30:59
C18_Witness ==
    /\ op = "MilitaryTime::from_naive_time"
    /\ arg.time = [hour |-> 12, minute |-> 30, second |-> 59, nano |-> 500000000]
    /\ ret = Ok(MilitaryTime(12, 30, 59))
    /\ to_naive_time(ret.val) = Ok([hour |-> 12, minute |-> 30, second |-> 59, nano |-> 0])

(***************************************************************************)
(* Properties of prefixes and generated identifiers.                       *)
(***************************************************************************)
\* C19 as stated: Prefix construction fails with the prefix-length error
\* exactly when the byte length of the prefix is 0 or greater than 4 (the
\* empty prefix and abcdefghi are both rejected) and succeeds for every
\* prefix of 1 to 4 bytes.
C19_EmptyAndLongRejected ==
    op = "Prefix::new" =>
        /\ ret = Err("InvalidPrefix") <=> (ByteLen(arg) = 0 \/ ByteLen(arg) > 4)
        /\ ByteLen(arg) \in 1..4 => ret = Ok(Prefix(arg))

\* C19 amended: Prefix construction fails with the prefix-length error
\* exactly when the byte length of the prefix is greater than 4 (abcdefghi is
\* rejected) and succeeds for every prefix of 0 to 4 bytes, the empty prefix
\* included.
C19_OnlyLongRejected ==
    op = "Prefix::new" =>
        /\ ret = Err("InvalidPrefix") <=> ByteLen(arg) > 4
        /\ ByteLen(arg) \in 0..4 => ret = Ok(Prefix(arg))

\* the empty prefix is accepted
C19_Witness ==
    /\ op = "Prefix::new"
    /\ arg = <<>>
    /\ ByteLen(arg) = 0
    /\ ret = Ok(Prefix(<<>>))

\* the timestamp embedded in the i-th identifier generated
EmbeddedTimestamp(i) == GlobalId_timestamp(generated[i].bytes)

\* C20 as stated: for identifiers generated by calls issued one after
\* another, the embedded microsecond timestamps are non-decreasing in call
\* order, for every behaviour of the wall clock, a clock stepped backwards
\* between two calls included.
C20_TimestampsNonDecreasing ==
    \A i \in 1..Len(generated), j \in 1..Len(generated) :
        i < j => EmbeddedTimestamp(i) <= EmbeddedTimestamp(j)

\* C20 amended: the microsecond timestamp embedded in an identifier is the
\* reading of the wall clock that its call sampled, so for calls issued one
\* after another the timestamps are non-decreasing in call order exactly
\* when the readings are; they decrease when the clock is stepped backwards
\* between two calls.
C20_TimestampsFollowTheClock ==
    /\ \A i \in 1..Len(generated) :
          /\ Len(generated[i].bytes) = 12
          /\ EmbeddedTimestamp(i) = generated[i].sampled
    /\ \A i \in 1..Len(generated), j \in 1..Len(generated) :
          i < j => (EmbeddedTimestamp(i) <= EmbeddedTimestamp(j)
                        <=> generated[i].sampled <= generated[j].sampled)

\* two identifiers generated while the clock advances past a whole second,
\* then a third after the clock is stepped backwards
C20_Witness ==
    /\ Len(generated) = 3
    /\ generated[1].sampled < 1000000
    /\ generated[2].sampled >= 1000000
    /\ EmbeddedTimestamp(1) < EmbeddedTimestamp(2)
    /\ generated[3].sampled < generated[2].sampled
    /\ EmbeddedTimestamp(3) < EmbeddedTimestamp(2)

(***************************************************************************)
(* Properties of the tag index.                                            *)
(***************************************************************************)
\* the tags of an event id in a map, none when the id is not a key
TagsOf(map, event_id) == IF event_id \in DOMAIN map THEN map[event_id] ELSE {}

\* the event ids that a map or its successor may hold
KnownIds == DOMAIN event_tags_map \cup DOMAIN manager_call.before \cup EventIdArgs

\* C21 as stated: after tag_event(event, tags), for every list of tags,
\* get_tags_for_event(event.id) returns Some of the union of the tags the
\* event had before and the tags of the list, and the tag set of every other
\* event id is unchanged.
C21_TagEventReturnsUnion ==
    manager_call.op = "tag_event" =>
        /\ get_tags_for_event(event_tags_map, manager_call.event_id) =
              Some(TagsOf(manager_call.before, manager_call.event_id)
                       \cup Range(manager_call.tags))
        /\ \A k \in KnownIds \ {manager_call.event_id} :
              get_tags_for_event(event_tags_map, k) =
                  get_tags_for_event(manager_call.before, k)

\* C21 amended: after tag_event(event, tags) with a list of at least one tag
\* (duplicates allowed), get_tags_for_event(event.id) returns Some of the
\* union of the tags the event had before and the tags of the list; with the
\* empty list it returns what it returned before, None for an event without
\* tags; the tag set of every other event id is unchanged.
C21_TagEventReturnsUnionOfNonEmptyList ==
    manager_call.op = "tag_event" =>
        /\ manager_call.tags # <<>> =>
              get_tags_for_event(event_tags_map, manager_call.event_id) =
                  Some(TagsOf(manager_call.before, manager_call.event_id)
                           \cup Range(manager_call.tags))
        /\ manager_call.tags = <<>> =>
              get_tags_for_event(event_tags_map, manager_call.event_id) =
                  get_tags_for_event(manager_call.before, manager_call.event_id)
        /\ \A k \in KnownIds \ {manager_call.event_id} :
              get_tags_for_event(event_tags_map, k) =
                  get_tags_for_event(manager_call.before, k)

\* an event that carries tag1 is tagged with tag2 twice while another event
\* carries tag3
C21_Witness ==
    /\ manager_call.op = "tag_event"
    /\ manager_call.tags = <<"tag2", "tag2">>
    /\ TagsOf(manager_call.before, manager_call.event_id) = {"tag1"}
    /\ get_tags_for_event(event_tags_map, manager_call.event_id) =
          Some({"tag1", "tag2"})
    /\ \E k \in DOMAIN event_tags_map :
          k # manager_call.event_id /\ event_tags_map[k] = {"tag3"}

\* the tag handed to delete_tag or remove_event_from_tag
CallTag == manager_call.tags[1]

\* the event ids that carried the tag before the call
CarriersBefore == {k \in DOMAIN manager_call.before : CallTag \in manager_call.before[k]}

C23_SharedTagNotDeleted ==
    (manager_call.op = "delete_tag" /\ Cardinality(CarriersBefore) > 1) =>
        /\ \A k \in CarriersBefore : CallTag \in TagsOf(event_tags_map, k)
        /\ event_tags_map = manager_call.before

(***************************************************************************)
(* Properties of the calendar walk.                                        *)
(***************************************************************************)
\* C24: in the Month branch of calculate_days_since the running month is
\* within 1..12 after every step of the walk, for every amount >= 1 (amounts
\* above 12 included) and every starting month.
C24_RunningMonthInRange ==
    (op = "Epoch::calculate_days_since" /\ arg.self.variant = "Month") =>
        \A n \in 1..arg.self.data.coefficient :
            MonthWalk(arg.since.date.year, arg.since.date.month,
                      arg.self.data.amount, n)[2] \in 1..12

\* C25: for Month and Year epochs the target instant has the time of day of
\* the reference instant, so calculate_days_since depends on the reference
\* date only: another reference instant on the same calendar date gives the
\* same result whatever its time of day, a sub-second part included.
C25_ResultDependsOnDateOnly ==
    (op = "Epoch::calculate_days_since" /\ arg.self.variant \in {"Month", "Year"}) =>
        \A t \in SinceTimes :
            calculate_days_since(arg.self, NaiveDateTime(arg.since.date, t)) = ret

(***************************************************************************)
(* Properties of the textual form of an Epoch.                             *)
(***************************************************************************)
\* C26: Epoch::from_str never returns Day{amount: 1, coefficient: 1}: for
\* every input a recurrence of one day repeated once is SingleDay; this
\* covers the inputs that take the lenient fallback, the inputs with
\* surrounding characters or leading zeros, and a unit letter alone.
C26_NeverDayOneOne ==
    op = "Epoch::from_str" => ret # Ok(Day(CalendarData(1, 1)))

\* C27: Display followed by parsing is the identity on epochs: for every
\* Epoch e that is SingleDay or carries amount >= 1 and coefficient >= 1,
\* other than Day{1,1}, Epoch::from_str(e.to_string()) = Ok(e), and SingleDay
\* is displayed as 1d1x.
C27_DisplayThenParseIsIdentity ==
    (op = "Epoch::to_string" /\ arg.self # Day(CalendarData(1, 1))) =>
        /\ Epoch_from_str(ret.val) = Ok(arg.self)
        /\ arg.self = SingleDay => ret.val = <<"1", "d", "1", "x">>

\* twelve months three times is displayed as 12m3x and parsed back
C27_Witness ==
    /\ op = "Epoch::to_string"
    /\ arg.self = Month(CalendarData(12, 3))
    /\ ret.val = <<"1", "2", "m", "3", "x">>
    /\ Epoch_from_str(ret.val) = Ok(arg.self)

\* C28: in every state reachable from EventManager::new by tag_event,
\* delete_tag and remove_event_from_tag no event id of the tag index maps to
\* an empty tag set; hence get_tags_for_event(id) is None exactly when the
\* event has no tags.
C28_NoEmptyTagSet ==
    /\ \A k \in DOMAIN event_tags_map : event_tags_map[k] # {}
    /\ \A k \in DOMAIN manager_call.before : manager_call.before[k] # {}
    /\ \A k \in EventIdArgs :
          get_tags_for_event(event_tags_map, k) = None
              <=> ~\E t \in TagNames : k \in DOMAIN event_tags_map /\ t \in event_tags_map[k]
    /\ manager_call.op = "get_tags_for_event" =>
          (manager_call.ret = None
              <=> ~\E t \in TagNames : t \in TagsOf(event_tags_map, manager_call.event_id))

\* the last tag of an event is taken away while another event keeps its
\* tags: the event leaves the index
C28_Witness ==
    /\ manager_call.op = "remove_event_from_tag"
    /\ manager_call.event_id \in DOMAIN manager_call.before
    /\ manager_call.before[manager_call.event_id] = {CallTag}
    /\ manager_call.event_id \notin DOMAIN event_tags_map
    /\ get_tags_for_event(event_tags_map, manager_call.event_id) = None
    /\ DOMAIN event_tags_map # {}

(***************************************************************************)
(* Properties of the recipient list.                                       *)
(***************************************************************************)
\* C29: after update_recipient(id, new), where the recipient_id of new
\* differs from id, the recipient list has no entry with identifier id, in
\* every state reachable by add_recipient, remove_recipient and
\* update_recipient; when no entry has identifier id the list is unchanged.
C29_UpdateLeavesNoEntryWithId ==
    \A rid \in RecipientIds, new \in RecipientIds :
        rid # new =>
            LET after == update_recipient(recipients, rid, Recipient(new)) IN
            /\ \A i \in 1..Len(after) : after[i].recipient_id # rid
            /\ (\A i \in 1..Len(recipients) : recipients[i].recipient_id # rid)
                   => after = recipients

(***************************************************************************)
(* Properties of the marker of the signal text.                            *)
(***************************************************************************)
\* C30: SignalTrigger::from_str accepts a time segment only when it is
\* introduced by exactly one leading M marker: an input without the marker
\* (16:30:25::I60) or with a repeated marker (MM16:30:25::I60) returns an
\* error.
C30_ExactlyOneLeadingMarker ==
    op = "SignalTrigger::from_str" =>
        /\ ret.tag = "Ok" =>
              LET text == Trim(arg) IN
              /\ Len(text) >= 1 /\ text[1] = "M"
              /\ Len(text) >= 2 => text[2] # "M"
        /\ arg \in SignalMarkerExamples => ret.tag = "Err"

====
